---- MODULE Spec2Model ----
(***************************************************************************)
(* Celebrity marriage survival analysis: the batch scripts data_check.py,  *)
(* analysis.py, step2_analysis.py, step3_comparative_analysis.py,          *)
(* step5_psycho_economic_analysis.py and step7_culture_analysis.py.        *)
(*                                                                         *)
(* Each script reads a CSV table, parses its date columns, derives the     *)
(* (duration, event) pair of every row and hands tables to estimators.     *)
(* A behaviour is one CSV table on disk followed by the run of one script. *)
(*                                                                         *)
(* Text is a sequence of one-character strings.  A timestamp is a number   *)
(* of ticks, TicksPerDay ticks to the day; a CSV date is a whole day.      *)
(* A real number is a fraction [num, den] with den > 0.                    *)
(***************************************************************************)
EXTENDS Integers, Sequences, FiniteSets, TLC

VARIABLES csv, pc, out

vars == <<csv, pc, out>>

(***************************************************************************)
(* Bounds of the model.                                                    *)
(***************************************************************************)
\* longest table of the event-classification and date-quality inputs
MaxRows == 2
\* longest table of the survival inputs
MaxKMRows == 3
\* resolution of the time of day of pd.to_datetime('today')
TicksPerDay == 2
\* the day the scripts run on (2010-01-01, counted from 2000-01-01)
TodayDay == 3653

(***************************************************************************)
(* Fractions.                                                              *)
(***************************************************************************)
Rat(n, d) == [num |-> n, den |-> d]

RatLe(a, b) == a.num * b.den <= b.num * a.den

RatLt(a, b) == a.num * b.den < b.num * a.den

RatEq(a, b) == a.num * b.den = b.num * a.den

RatMul(a, b) == Rat(a.num * b.num, a.den * b.den)

RatAdd(a, b) == Rat(a.num * b.den + b.num * a.den, a.den * b.den)

RatOfInt(n) == Rat(n, 1)

RECURSIVE Gcd(_, _)
Gcd(a, b) == IF b = 0 THEN a ELSE Gcd(b, a % b)

\* the fraction in lowest terms (one value per real number)
RatNorm(a) ==
    LET n == IF a.num < 0 THEN -a.num ELSE a.num
        g == Gcd(n, a.den)
    IN  IF g = 0 THEN Rat(0, 1) ELSE Rat(a.num \div g, a.den \div g)

(***************************************************************************)
(* Text: str.lower() and the substring test `sub in s`.                    *)
(***************************************************************************)
UpperLetters ==
    <<"A", "B", "C", "D", "E", "F", "G", "H", "I", "J", "K", "L", "M",
      "N", "O", "P", "Q", "R", "S", "T", "U", "V", "W", "X", "Y", "Z">>

LowerLetters ==
    <<"a", "b", "c", "d", "e", "f", "g", "h", "i", "j", "k", "l", "m",
      "n", "o", "p", "q", "r", "s", "t", "u", "v", "w", "x", "y", "z">>

lower_char(c) ==
    IF \E i \in 1..Len(UpperLetters) : UpperLetters[i] = c
    THEN LowerLetters[CHOOSE i \in 1..Len(UpperLetters) : UpperLetters[i] = c]
    ELSE c

lower(s) == [i \in 1..Len(s) |-> lower_char(s[i])]

\* Python's `sub in s`
contains(sub, s) ==
    \E k \in 0..(Len(s) - Len(sub)) :
        \A i \in 1..Len(sub) : s[k + i] = sub[i]

(***************************************************************************)
(* Cells.  A parsed cell is [isna, v]; a missing one carries a dummy v.    *)
(***************************************************************************)
NaT == [isna |-> TRUE, v |-> 0]

NaNText == [isna |-> TRUE, v |-> <<>>]

Text(s) == [isna |-> FALSE, v |-> s]

\* a number, and the missing number
Num(n) == [isna |-> FALSE, v |-> n]

NaN == [isna |-> TRUE, v |-> 0]

\* a missing real number
NaNRat == [isna |-> TRUE, v |-> Rat(0, 1)]

isnull(cell) == cell.isna

\* str(cell): a missing cell prints as 'nan'
str(cell) == IF cell.isna THEN <<"n", "a", "n">> ELSE cell.v

\* a raw CSV date cell: empty, text that is no date, or an ISO date
RawEmpty == [kind |-> "nan", day |-> 0]

RawGarbage == [kind |-> "text", day |-> 0]

RawDate(d) == [kind |-> "iso", day |-> d]

\* pd.to_datetime(col, errors='coerce'), cell by cell
to_datetime(raw) ==
    IF raw.kind = "iso"
    THEN [isna |-> FALSE, v |-> raw.day * TicksPerDay]
    ELSE NaT

\* pd.to_datetime('today'): the run's clock, time of day included
Nows == {TodayDay * TicksPerDay + t : t \in 0..(TicksPerDay - 1)}

\* Series.fillna(value), cell by cell
fillna(cell, value) == IF cell.isna THEN Num(value) ELSE cell

\* (a - b).dt.days: the whole days of a timedelta, rounded down; NaN if
\* either side is missing
dt_days(a, b) ==
    IF a.isna \/ b.isna
    THEN NaN
    ELSE Num((a.v - b.v) \div TicksPerDay)

\* 365.25
DaysPerYear == Rat(1461, 4)

\* days / 365.25, NaN kept
years_of_days(days) ==
    IF days.isna
    THEN NaNRat
    ELSE Num(Rat(days.v * DaysPerYear.den, DaysPerYear.num))

(***************************************************************************)
(* The CSV tables.  Every row carries the columns the scripts read.        *)
(***************************************************************************)
T_divorce == <<"d", "i", "v", "o", "r", "c", "e">>

T_death_of_spouse ==
    <<"d", "e", "a", "t", "h", " ", "o", "f", " ", "s", "p", "o", "u", "s", "e">>

T_Widowed == <<"W", "i", "d", "o", "w", "e", "d">>

T_actor == <<"a", "c", "t", "o", "r">>

T_India == <<"I", "n", "d", "i", "a">>

CsvRow(start, end, cause) ==
    [Celebrity            |-> "c1",
     Spouse               |-> "s1",
     Start_Date           |-> start,
     End_Date             |-> end,
     End_Cause            |-> cause,
     Celebrity_Birth      |-> RawDate(-10000),
     Spouse_Birth         |-> RawDate(-9000),
     Celebrity_Fame_Score |-> Num(60),
     Spouse_Fame_Score    |-> Num(10),
     Career_Start_Year    |-> RawDate(-2000),
     Children_Count       |-> Num(1),
     Awards_Count         |-> Num(0),
     Occupation           |-> Text(T_actor),
     Country              |-> Text(T_India)]

\* rows that vary the end cause (start 2000-01-01, end 2010-01-01 or none)
CauseRows ==
    {CsvRow(RawDate(0), e, c) :
        e \in {RawEmpty, RawDate(3653)},
        c \in {NaNText, Text(T_divorce), Text(T_death_of_spouse), Text(T_Widowed)}}

\* rows that vary the quality of the dates (2000-01-01, 2005-01-01, 2010-01-01)
DateRows ==
    {CsvRow(s, e, NaNText) :
        s \in {RawEmpty, RawGarbage, RawDate(0), RawDate(1827)},
        e \in {RawEmpty, RawDate(0), RawDate(3653)}}

\* rows with valid dates: three start dates, ended on 2010-01-01 or ongoing
SurvivalRows ==
    {CsvRow(RawDate(s), e, NaNText) :
        s \in {0, 1096, 1827},
        e \in {RawEmpty, RawDate(3653)}}

\* rows that vary the start of the career (age 13 or 21 at the debut)
DebutRows ==
    {[CsvRow(RawDate(0), e, NaNText) EXCEPT !.Career_Start_Year = RawDate(c)] :
        e \in {RawEmpty, RawDate(3653)},
        c \in {-5000, -2000}}

\* the fetcher that leaves a missing count in the table it saves
step4_fill_counts_skipped(row) == row

\* step4_psycho_economic_fetcher.py, lines 106-107: the table is saved with
\* the missing children and awards counts filled with 0
step4_fill_counts(row) ==
    [row EXCEPT !.Children_Count = fillna(@, 0), !.Awards_Count = fillna(@, 0)]

\* the children counts Wikidata returns: none, 0, 2, 3 and 21
FetchedCounts == {NaN, Num(0), Num(2), Num(3), Num(21)}

\* rows that vary the number of children, as the fetcher saves them (ended
\* 2010-01-01, age 13 or 21 at the debut)
KidsRows ==
    {step4_fill_counts([CsvRow(RawDate(0), RawDate(3653), NaNText)
                           EXCEPT !.Children_Count = k,
                                  !.Career_Start_Year = RawDate(c)]) :
        k \in FetchedCounts, c \in {-5000, -2000}}

\* rows that vary the age at the debut of a celebrity born on day -31000:
\* a debut a year before the birth, on the day of the birth, a day before
\* the age of 16 (5844 days), at 16, at 80 (29220 days) and at 82
AgeRows ==
    {[CsvRow(RawDate(0), RawDate(3653), NaNText)
         EXCEPT !.Celebrity_Birth = RawDate(-31000),
                !.Career_Start_Year = RawDate(-31000 + a)] :
        a \in {-366, 0, 5843, 5844, 29220, 30000}}

\* rows that vary the age gap of a celebrity born on day -10000: a spouse
\* of unknown birth, born the same day, 20 years earlier (7305 days), a day
\* less than 60 years, 60 years (21915 days) and 70 years earlier
AgeGapRows ==
    {[CsvRow(RawDate(0), RawDate(3653), NaNText) EXCEPT !.Spouse_Birth = b] :
        b \in {RawEmpty} \cup {RawDate(-10000 - g) : g \in {0, 7305, 21914, 21915, 25568}}}

\* the tables of at most n rows of R
Tables(R, n) == UNION {[1..k -> R] : k \in 0..n}

CsvTables ==
    Tables(CauseRows, MaxRows) \cup Tables(DateRows, MaxRows)
        \cup Tables(DebutRows, MaxRows) \cup Tables(SurvivalRows, MaxKMRows)
        \cup Tables(KidsRows, MaxRows) \cup Tables(AgeRows, MaxRows)
        \cup Tables(AgeGapRows, MaxRows)

(***************************************************************************)
(* Sorting and the median.                                                 *)
(***************************************************************************)
\* the members of a finite set of fractions, ascending
RECURSIVE SortRats(_)
SortRats(S) ==
    IF S = {} THEN <<>>
    ELSE LET m == CHOOSE x \in S : \A y \in S : RatLe(x, y)
         IN  <<m>> \o SortRats(S \ {m})

\* a sequence of fractions sorted ascending, duplicates kept
RECURSIVE SortRatSeq(_)
SortRatSeq(s) ==
    IF s = <<>> THEN <<>>
    ELSE LET i == CHOOSE j \in 1..Len(s) : \A k \in 1..Len(s) : RatLe(s[j], s[k])
             rest == [k \in 1..(Len(s) - 1) |-> IF k < i THEN s[k] ELSE s[k + 1]]
         IN  <<s[i]>> \o SortRatSeq(rest)

\* Series.median() of the non-missing values; NaN for none
median(values) ==
    LET s == SortRatSeq(values)
        n == Len(s)
    IN  IF n = 0 THEN NaNRat
        ELSE IF n % 2 = 1 THEN Num(RatNorm(s[(n + 1) \div 2]))
        ELSE Num(RatNorm(RatMul(RatAdd(s[n \div 2], s[n \div 2 + 1]), Rat(1, 2))))

\* the values of column f of the rows of df
Column(df, f) == [i \in 1..Len(df) |-> df[i][f]]

\* the non-missing values of a sequence of cells
RECURSIVE dropna_values(_)
dropna_values(cells) ==
    IF cells = <<>> THEN <<>>
    ELSE (IF Head(cells).isna THEN <<>> ELSE <<Head(cells).v>>)
            \o dropna_values(Tail(cells))

(***************************************************************************)
(* Event classification, one definition per script.  A row is classified   *)
(* after its dates are parsed: End_Date is a parsed cell.                  *)
(***************************************************************************)
K_death == <<"d", "e", "a", "t", "h">>

K_widow == <<"w", "i", "d", "o", "w">>

\* the keyword test on the text as written, not lower-cased
step2_get_event_status_case_sensitive(row) ==
    IF isnull(row.End_Date) THEN 0
    ELSE LET cause == str(row.End_Cause)
         IN  IF contains(K_death, cause) \/ contains(K_widow, cause) THEN 0
             ELSE 1

\* step2_analysis.py, get_event_status
step2_get_event_status(row) ==
    IF isnull(row.End_Date) THEN 0
    ELSE LET cause == lower(str(row.End_Cause))
         IN  IF contains(K_death, cause) \/ contains(K_widow, cause) THEN 0
             ELSE 1

\* analysis.py, get_event_status
analysis_get_event_status(row) ==
    IF isnull(row.End_Date) THEN 0
    ELSE LET cause == lower(str(row.End_Cause))
         IN  IF contains(K_death, cause) \/ contains(K_widow, cause) THEN 0
             ELSE 1

\* step3_comparative_analysis.py, get_status
step3_get_status(row) ==
    IF isnull(row.End_Date) THEN 0
    ELSE IF contains(K_death, lower(str(row.End_Cause))) THEN 0
    ELSE 1

\* step5_psycho_economic_analysis.py, get_status
step5_get_status(row) ==
    IF isnull(row.End_Date) THEN 0
    ELSE IF contains(K_death, lower(str(row.End_Cause))) THEN 0
    ELSE 1

\* a classification that also reads the duration of the row
step7_get_status_reads_duration(row) ==
    IF isnull(row.End_Date) THEN 0
    ELSE IF contains(K_death, lower(str(row.End_Cause))) THEN 0
    ELSE IF RatLt(Rat(5, 1), row.Duration_Years.v) THEN 0
    ELSE 1

\* step7_culture_analysis.py, get_status
step7_get_status(row) ==
    IF isnull(row.End_Date) THEN 0
    ELSE IF contains(K_death, lower(str(row.End_Cause))) THEN 0
    ELSE 1

(***************************************************************************)
(* The Kaplan-Meier estimator (lifelines.KaplanMeierFitter): the scripts   *)
(* call it, its code is the library's.  It walks the distinct observation  *)
(* times in ascending order from time 0 with everyone at risk; at a time   *)
(* with d >= 1 events among the n at risk it multiplies S by (1 - d/n);    *)
(* then everyone observed at that time, failed or censored, leaves the     *)
(* risk set.  The fit is the sequence of points [t, S] of the step         *)
(* function, and it raises on an empty input.                              *)
(***************************************************************************)
KMTimeline(durations) ==
    SortRats({Rat(0, 1)} \cup {RatNorm(durations[i]) : i \in 1..Len(durations)})

\* the walk with every observation that leaves counted as an event
KMWalk_ignores_censoring(durations, event_observed, T) ==
    LET RECURSIVE Walk(_, _, _)
        Walk(k, risk, S) ==
            IF k > Len(T) THEN <<>>
            ELSE LET t == T[k]
                     leaving == {i \in risk : RatEq(durations[i], t)}
                     d == Cardinality(leaving)
                     n == Cardinality(risk)
                     S2 == IF d = 0 THEN S
                           ELSE RatNorm(RatMul(S, Rat(n - d, n)))
                 IN  <<[t |-> t, S |-> S2]>> \o Walk(k + 1, risk \ leaving, S2)
    IN  Walk(1, 1..Len(durations), Rat(1, 1))

\* the walk with the observations censored at a time leaving the risk set
\* before the events of that time are counted
KMWalk_censored_leave_first(durations, event_observed, T) ==
    LET RECURSIVE Walk(_, _, _)
        Walk(k, risk, S) ==
            IF k > Len(T) THEN <<>>
            ELSE LET t == T[k]
                     leaving == {i \in risk : RatEq(durations[i], t)}
                     d == Cardinality({i \in leaving : event_observed[i] = 1})
                     n == Cardinality(risk) - (Cardinality(leaving) - d)
                     S2 == IF d = 0 THEN S
                           ELSE RatNorm(RatMul(S, Rat(n - d, n)))
                 IN  <<[t |-> t, S |-> S2]>> \o Walk(k + 1, risk \ leaving, S2)
    IN  Walk(1, 1..Len(durations), Rat(1, 1))

KMWalk(durations, event_observed, T) ==
    LET RECURSIVE Walk(_, _, _)
        Walk(k, risk, S) ==
            IF k > Len(T) THEN <<>>
            ELSE LET t == T[k]
                     leaving == {i \in risk : RatEq(durations[i], t)}
                     d == Cardinality({i \in leaving : event_observed[i] = 1})
                     n == Cardinality(risk)
                     S2 == IF d = 0 THEN S
                           ELSE RatNorm(RatMul(S, Rat(n - d, n)))
                 IN  <<[t |-> t, S |-> S2]>> \o Walk(k + 1, risk \ leaving, S2)
    IN  Walk(1, 1..Len(durations), Rat(1, 1))

\* kmf.predict(t): the right-continuous step function, 1 before the first point
KMPredict(curve, t) ==
    LET at == {k \in 1..Len(curve) : RatLe(curve[k].t, t)}
    IN  IF at = {} THEN Rat(1, 1)
        ELSE curve[CHOOSE k \in at : \A j \in at : j <= k].S

\* the median taken at the first time with S strictly below 0.5
KMMedian_strictly_below(curve) ==
    LET at == {k \in 1..Len(curve) : RatLt(curve[k].S, Rat(1, 2))}
    IN  IF at = {} THEN [inf |-> TRUE, v |-> Rat(0, 1)]
        ELSE [inf |-> FALSE, v |-> curve[CHOOSE k \in at : \A j \in at : k <= j].t]

\* kmf.median_survival_time_: the first time with S <= 0.5, else infinity
KMMedian(curve) ==
    LET at == {k \in 1..Len(curve) : RatLe(curve[k].S, Rat(1, 2))}
    IN  IF at = {} THEN [inf |-> TRUE, v |-> Rat(0, 1)]
        ELSE [inf |-> FALSE, v |-> curve[CHOOSE k \in at : \A j \in at : k <= j].t]

\* kmf.fit(durations, event_observed): the fitted object, or ok = FALSE when
\* the fit raises (no observation, or a missing duration)
KaplanMeierFit(durations, event_observed) ==
    IF Len(durations) = 0 \/ \E i \in 1..Len(durations) : durations[i].isna
    THEN [ok |-> FALSE, durations |-> <<>>, event_observed |-> event_observed,
          curve |-> <<>>, median_survival_time_ |-> [inf |-> TRUE, v |-> Rat(0, 1)]]
    ELSE LET T == [i \in 1..Len(durations) |-> durations[i].v]
             curve == KMWalk(T, event_observed, KMTimeline(T))
         IN  [ok |-> TRUE, durations |-> T, event_observed |-> event_observed,
              curve |-> curve, median_survival_time_ |-> KMMedian(curve)]

(***************************************************************************)
(* sklearn.linear_model.LogisticRegression.fit: the library's code.  The   *)
(* coefficients are not modelled; the fit raises when the target holds     *)
(* fewer than two classes (an empty table included).                       *)
(***************************************************************************)
LogisticRegressionFit(X, y) ==
    [ok |-> (\E i \in 1..Len(y) : y[i] = 1) /\ (\E i \in 1..Len(y) : y[i] = 0),
     X |-> X, y |-> y]

(***************************************************************************)
(* Data-frame helpers.                                                     *)
(***************************************************************************)
\* df.head(n)
head(df, n) == SubSeq(df, 1, IF Len(df) < n THEN Len(df) ELSE n)

\* a sequence without its i-th element
RemoveAt(s, i) == [k \in 1..(Len(s) - 1) |-> IF k < i THEN s[k] ELSE s[k + 1]]

\* x > c and x <= c on a cell holding a fraction: a comparison with NaN is False
gt(cell, c) == ~cell.isna /\ RatLt(c, cell.v)

le(cell, c) == ~cell.isna /\ RatLe(cell.v, c)

lt(cell, c) == ~cell.isna /\ RatLt(cell.v, c)

\* df.sort_values('Duration_Days'): ascending, missing values last (rows
\* with equal keys keep their order)
RECURSIVE sort_values_Duration_Days(_)
sort_values_Duration_Days(df) ==
    IF df = <<>> THEN <<>>
    ELSE LET known == {j \in 1..Len(df) : ~df[j].Duration_Days.isna}
             least == {j \in known :
                          \A k \in known :
                              df[j].Duration_Days.v <= df[k].Duration_Days.v}
             pool == IF known = {} THEN 1..Len(df) ELSE least
             i == CHOOSE j \in pool : \A k \in pool : j <= k
         IN  <<df[i]>> \o sort_values_Duration_Days(RemoveAt(df, i))

\* df['Celebrity'].value_counts(): [name, count], most frequent first
RECURSIVE value_counts_sorted(_)
value_counts_sorted(counts) ==
    IF counts = {} THEN <<>>
    ELSE LET m == CHOOSE x \in counts : \A y \in counts : y.count <= x.count
         IN  <<m>> \o value_counts_sorted(counts \ {m})

value_counts_Celebrity(df) ==
    value_counts_sorted(
        {[name |-> c, count |-> Cardinality({i \in 1..Len(df) : df[i].Celebrity = c})] :
            c \in {df[i].Celebrity : i \in 1..Len(df)}})

(***************************************************************************)
(* data_check.py                                                           *)
(***************************************************************************)
\* lines 10-23: the derived columns of one row
data_check_row(r, today) ==
    LET Start == to_datetime(r.Start_Date)
        End == to_datetime(r.End_Date)
        Observed == fillna(End, today)
        Days == dt_days(Observed, Start)
    IN  [Celebrity         |-> r.Celebrity,
         Spouse            |-> r.Spouse,
         Start_Date        |-> Start,
         End_Date          |-> End,
         End_Cause         |-> r.End_Cause,
         Observed_End_Date |-> Observed,
         Duration_Days     |-> Days,
         Duration_Years    |-> years_of_days(Days),
         Status            |-> IF ~isnull(End) THEN "Ended" ELSE "Ongoing"]

data_check_is_ended(row) == row.Status = "Ended"

\* line 31: [['Celebrity', 'Spouse', 'Duration_Days', 'Start_Date']]
data_check_columns(df) ==
    [i \in 1..Len(df) |->
        [Celebrity |-> df[i].Celebrity, Spouse |-> df[i].Spouse,
         Duration_Days |-> df[i].Duration_Days, Start_Date |-> df[i].Start_Date]]

\* the whole script: the frame and the four reported insights
data_check(table, today) ==
    LET df == [i \in 1..Len(table) |-> data_check_row(table[i], today)]
        ended == SelectSeq(df, data_check_is_ended)
    IN  [today         |-> today,
         stage         |-> "done",
         df            |-> df,
         most_married  |-> head(value_counts_Celebrity(df), 5),
         shortest      |-> data_check_columns(head(sort_values_Duration_Days(ended), 5)),
         median_input  |-> dropna_values(Column(ended, "Duration_Years")),
         avg_duration  |-> median(dropna_values(Column(ended, "Duration_Years"))),
         total_records |-> Len(df)]

(***************************************************************************)
(* step2_analysis.py                                                       *)
(***************************************************************************)
\* |x| of a fraction
RatAbs(a) == Rat(IF a.num < 0 THEN -a.num ELSE a.num, a.den)

\* abs(x) of a cell holding a fraction
abs_cell(cell) == IF cell.isna THEN cell ELSE Num(RatAbs(cell.v))

\* lines 21-23: the four date columns parsed
step2_parse(r) ==
    [r EXCEPT !.Start_Date = to_datetime(@), !.End_Date = to_datetime(@),
              !.Celebrity_Birth = to_datetime(@), !.Spouse_Birth = to_datetime(@)]

\* line 26: dropna(subset=['Start_Date'])
step2_has_start(row) == ~isnull(row.Start_Date)

\* lines 30-33: the duration columns
step2_duration(row, today) ==
    LET Observed == fillna(row.End_Date, today)
        Days == dt_days(Observed, row.Start_Date)
    IN  [Celebrity            |-> row.Celebrity,
         Spouse               |-> row.Spouse,
         Start_Date           |-> row.Start_Date,
         End_Date             |-> row.End_Date,
         End_Cause            |-> row.End_Cause,
         Celebrity_Birth      |-> row.Celebrity_Birth,
         Spouse_Birth         |-> row.Spouse_Birth,
         Celebrity_Fame_Score |-> row.Celebrity_Fame_Score,
         Spouse_Fame_Score    |-> row.Spouse_Fame_Score,
         Observed_End_Date    |-> Observed,
         Duration_Days        |-> Days,
         Duration_Years       |-> years_of_days(Days)]

\* the filter with zero-day durations let through
step2_positive_or_zero(row) == ~row.Duration_Days.isna /\ row.Duration_Days.v >= 0

\* line 36: df[df['Duration_Days'] > 0]
step2_positive(row) == ~row.Duration_Days.isna /\ row.Duration_Days.v > 0

\* the short-marriage threshold in years (lines 72-73)
ShortMarriageYears == 5

\* the fame score above which a spouse is famous (line 60)
FamousSpouseScore == 20

\* lines 50-61: the event flag and the risk factors
step2_features(row) ==
    LET cf == fillna(row.Celebrity_Fame_Score, 0)
        sf == fillna(row.Spouse_Fame_Score, 0)
        gap == cf.v - sf.v
        famous == IF sf.v > FamousSpouseScore THEN 1 ELSE 0
    IN  [Celebrity            |-> row.Celebrity,
         Spouse               |-> row.Spouse,
         Start_Date           |-> row.Start_Date,
         End_Date             |-> row.End_Date,
         End_Cause            |-> row.End_Cause,
         Observed_End_Date    |-> row.Observed_End_Date,
         Duration_Days        |-> row.Duration_Days,
         Duration_Years       |-> row.Duration_Years,
         Event_Divorce        |-> step2_get_event_status(row),
         Age_Gap              |-> fillna(abs_cell(years_of_days(
                                     dt_days(row.Celebrity_Birth, row.Spouse_Birth))),
                                     Rat(0, 1)),
         Celebrity_Fame_Score |-> cf,
         Spouse_Fame_Score    |-> sf,
         Fame_Gap             |-> IF gap < 0 THEN -gap ELSE gap,
         Is_Famous_Spouse     |-> famous,
         Spouse_Type_Label    |-> IF famous = 1 THEN "Famous Spouse" ELSE "Non-Famous"]

\* the regression fed with every row
step2_in_model_data_unfiltered(row) == TRUE

\* line 72: (Event_Divorce == 1) | (Duration_Years > 5)
step2_in_model_data(row) ==
    row.Event_Divorce = 1 \/ gt(row.Duration_Years, RatOfInt(ShortMarriageYears))

\* line 73: (Duration_Years <= 5).astype(int)
step2_target(row) ==
    IF le(row.Duration_Years, RatOfInt(ShortMarriageYears)) THEN 1 ELSE 0

\* lines 72-73: the rows of the logistic regression with their target
step2_model_data(df) ==
    LET kept == SelectSeq(df, step2_in_model_data)
    IN  [i \in 1..Len(kept) |->
            [Duration_Years        |-> kept[i].Duration_Years,
             Duration_Days         |-> kept[i].Duration_Days,
             Start_Date            |-> kept[i].Start_Date,
             Event_Divorce         |-> kept[i].Event_Divorce,
             Age_Gap               |-> kept[i].Age_Gap,
             Fame_Gap              |-> kept[i].Fame_Gap,
             Is_Famous_Spouse      |-> kept[i].Is_Famous_Spouse,
             Target_Short_Marriage |-> step2_target(kept[i])]]

\* lines 15-36 and 50-61: the cleaned frame
step2_frame(table, today) ==
    LET parsed == [i \in 1..Len(table) |-> step2_parse(table[i])]
        started == SelectSeq(parsed, step2_has_start)
        timed == [i \in 1..Len(started) |-> step2_duration(started[i], today)]
        valid == SelectSeq(timed, step2_positive)
    IN  [i \in 1..Len(valid) |-> step2_features(valid[i])]

\* the whole script.  stage is the statement the run ended at: a fit that
\* raises ends the run there, and the conclusions are printed last.
step2_analysis(table, today) ==
    LET df == step2_frame(table, today)
        kmf == KaplanMeierFit(Column(df, "Duration_Years"), Column(df, "Event_Divorce"))
        model_data == step2_model_data(df)
        model == LogisticRegressionFit(model_data, Column(model_data, "Target_Short_Marriage"))
        stage == IF ~kmf.ok THEN "kmf.fit" ELSE IF ~model.ok THEN "model.fit" ELSE "done"
    IN  [today      |-> today,
         stage      |-> stage,
         df         |-> df,
         kmf        |-> kmf,
         model_data |-> IF kmf.ok THEN model_data ELSE <<>>,
         model_ok   |-> kmf.ok /\ model.ok,
         report     |-> IF stage = "done"
                        THEN <<[median |-> kmf.median_survival_time_,
                                p10 |-> KMPredict(kmf.curve, RatOfInt(10))]>>
                        ELSE <<>>]

(***************************************************************************)
(* analysis.py                                                             *)
(***************************************************************************)
\* lines 10-12: the four date columns parsed
analysis_parse(r) ==
    [r EXCEPT !.Start_Date = to_datetime(@), !.End_Date = to_datetime(@),
              !.Celebrity_Birth = to_datetime(@), !.Spouse_Birth = to_datetime(@)]

\* line 14: dropna(subset=['Start_Date'])
analysis_has_start(row) == ~isnull(row.Start_Date)

\* lines 15-18: the duration columns
analysis_duration(row, today) ==
    LET Observed == fillna(row.End_Date, today)
        Days == dt_days(Observed, row.Start_Date)
    IN  [Celebrity            |-> row.Celebrity,
         Spouse               |-> row.Spouse,
         Start_Date           |-> row.Start_Date,
         End_Date             |-> row.End_Date,
         End_Cause            |-> row.End_Cause,
         Celebrity_Birth      |-> row.Celebrity_Birth,
         Spouse_Birth         |-> row.Spouse_Birth,
         Celebrity_Fame_Score |-> row.Celebrity_Fame_Score,
         Spouse_Fame_Score    |-> row.Spouse_Fame_Score,
         Observed_End_Date    |-> Observed,
         Duration_Days        |-> Days,
         Duration_Years       |-> years_of_days(Days)]

\* line 19: df[df['Duration_Days'] > 0]
analysis_positive(row) == ~row.Duration_Days.isna /\ row.Duration_Days.v > 0

\* the age gap above which a row is an outlier (line 38)
AgeGapCutoff == 60

\* |a - b| of two numeric cells, NaN if either is missing
abs_diff(a, b) ==
    IF a.isna \/ b.isna THEN NaN
    ELSE Num(IF a.v - b.v < 0 THEN b.v - a.v ELSE a.v - b.v)

\* lines 28-34: the event flag, its label and the features
analysis_features(row) ==
    LET event == analysis_get_event_status(row)
    IN  [Celebrity         |-> row.Celebrity,
         Spouse            |-> row.Spouse,
         Start_Date        |-> row.Start_Date,
         End_Date          |-> row.End_Date,
         End_Cause         |-> row.End_Cause,
         Observed_End_Date |-> row.Observed_End_Date,
         Duration_Days     |-> row.Duration_Days,
         Duration_Years    |-> row.Duration_Years,
         Event_Divorce     |-> event,
         Status_Label      |-> IF event = 1 THEN "Divorced" ELSE "Ongoing/Widowed",
         Age_Gap           |-> abs_cell(years_of_days(
                                  dt_days(row.Celebrity_Birth, row.Spouse_Birth))),
         Fame_Gap_Raw      |-> abs_diff(row.Celebrity_Fame_Score, row.Spouse_Fame_Score),
         Spouse_Type       |-> IF ~row.Spouse_Fame_Score.isna
                                    /\ row.Spouse_Fame_Score.v > FamousSpouseScore
                               THEN "Famous Spouse" ELSE "Non-Famous Spouse"]

\* lines 37-38: dropna(subset=['Age_Gap']), then Age_Gap < 60
analysis_in_clean(row) ==
    ~row.Age_Gap.isna /\ RatLt(row.Age_Gap.v, RatOfInt(AgeGapCutoff))

\* line 46: pd.cut(Age_Gap, bins=[0, 5, 10, 20, 100], labels=...): the bins
\* are open on the left and closed on the right; a value in none is NaN
analysis_Age_Gap_Bin(gap) ==
    IF gap.isna THEN "NaN"
    ELSE IF RatLt(RatOfInt(0), gap.v) /\ RatLe(gap.v, RatOfInt(5)) THEN "0-5 Years"
    ELSE IF RatLt(RatOfInt(5), gap.v) /\ RatLe(gap.v, RatOfInt(10)) THEN "5-10 Years"
    ELSE IF RatLt(RatOfInt(10), gap.v) /\ RatLe(gap.v, RatOfInt(20)) THEN "10-20 Years"
    ELSE IF RatLt(RatOfInt(20), gap.v) /\ RatLe(gap.v, RatOfInt(100)) THEN "20+ Years"
    ELSE "NaN"

analysis_labels == <<"0-5 Years", "5-10 Years", "10-20 Years", "20+ Years">>

\* the sum of a sequence of integers
RECURSIVE SumSeq(_)
SumSeq(s) == IF s = <<>> THEN 0 ELSE Head(s) + SumSeq(Tail(s))

\* agg(count, mean, median) of one group; mean and median of no row are NaN
analysis_agg(group) ==
    [Total_Marriages |-> Len(group),
     Divorce_Rate    |-> IF Len(group) = 0 THEN NaNRat
                         ELSE Num(RatNorm(Rat(SumSeq(Column(group, "Event_Divorce")),
                                              Len(group)))),
     Median_Duration |-> median(dropna_values(Column(group, "Duration_Years")))]

\* lines 14-34: the cleaned frame
analysis_frame(table, today) ==
    LET parsed == [i \in 1..Len(table) |-> analysis_parse(table[i])]
        started == SelectSeq(parsed, analysis_has_start)
        timed == [i \in 1..Len(started) |-> analysis_duration(started[i], today)]
        valid == SelectSeq(timed, analysis_positive)
    IN  [i \in 1..Len(valid) |-> analysis_features(valid[i])]

\* the whole script: the frame, the frame without age-gap outliers, the two
\* tables of statistics and the rows of the correlation matrix
analysis(table, today) ==
    LET df == analysis_frame(table, today)
        kept == SelectSeq(df, analysis_in_clean)
        df_clean == [i \in 1..Len(kept) |->
                        [Row |-> kept[i],
                         Age_Gap_Bin |-> analysis_Age_Gap_Bin(kept[i].Age_Gap)]]
        InBin(b) == LET Test(x) == x.Age_Gap_Bin = b
                        sel == SelectSeq(df_clean, Test)
                    IN  [i \in 1..Len(sel) |-> sel[i].Row]
        OfType(t) == LET Test(x) == x.Spouse_Type = t IN SelectSeq(kept, Test)
        Divorced(x) == x.Event_Divorce = 1
    IN  [today         |-> today,
         stage         |-> "done",
         df            |-> df,
         df_clean      |-> df_clean,
         age_gap_stats |-> [b \in 1..Len(analysis_labels) |->
                               analysis_agg(InBin(analysis_labels[b]))],
         fame_stats    |-> [t \in {kept[i].Spouse_Type : i \in 1..Len(kept)} |->
                               analysis_agg(OfType(t))],
         corr_input    |-> SelectSeq(kept, Divorced)]

(***************************************************************************)
(* step3_comparative_analysis.py                                           *)
(***************************************************************************)
\* lines 12-14: the four date columns parsed
step3_parse(r) ==
    [r EXCEPT !.Start_Date = to_datetime(@), !.End_Date = to_datetime(@),
              !.Celebrity_Birth = to_datetime(@), !.Spouse_Birth = to_datetime(@)]

\* line 15: dropna(subset=['Start_Date'])
step3_has_start(row) == ~isnull(row.Start_Date)

\* lines 17-19: the duration column
step3_duration(row, today) ==
    LET Observed == fillna(row.End_Date, today)
    IN  [Celebrity         |-> row.Celebrity,
         Start_Date        |-> row.Start_Date,
         End_Date          |-> row.End_Date,
         End_Cause         |-> row.End_Cause,
         Observed_End_Date |-> Observed,
         Duration_Years    |-> years_of_days(dt_days(Observed, row.Start_Date))]

\* line 20: df[df['Duration_Years'] > 0]
step3_positive(row) == gt(row.Duration_Years, RatOfInt(0))

\* line 27 and line 63: the event flag and the group
step3_event(row) ==
    [Celebrity         |-> row.Celebrity,
     Start_Date        |-> row.Start_Date,
     End_Date          |-> row.End_Date,
     End_Cause         |-> row.End_Cause,
     Observed_End_Date |-> row.Observed_End_Date,
     Duration_Years    |-> row.Duration_Years,
     Event             |-> step3_get_status(row),
     Group             |-> "Celebrities"]

\* lines 9-27: the cleaned frame
step3_frame(table, today) ==
    LET parsed == [i \in 1..Len(table) |-> step3_parse(table[i])]
        started == SelectSeq(parsed, step3_has_start)
        timed == [i \in 1..Len(started) |-> step3_duration(started[i], today)]
        valid == SelectSeq(timed, step3_positive)
    IN  [i \in 1..Len(valid) |-> step3_event(valid[i])]

\* lines 34-61: the simulated control group.  Its 3000 durations are numpy
\* draws, each above 0 and at most 60 years, each with a drawn event flag;
\* the model draws a short table of them.
ControlGroups ==
    {<<[Duration_Years |-> Num(Rat(12, 1)), Event |-> 1],
       [Duration_Years |-> Num(Rat(60, 1)), Event |-> 0]>>,
     <<[Duration_Years |-> Num(Rat(7, 2)), Event |-> 0]>>}

\* the whole script: both curves and the two plain medians
step3_comparative_analysis(table, today, df_normal) ==
    LET df == step3_frame(table, today)
        kmf_celeb == KaplanMeierFit(Column(df, "Duration_Years"), Column(df, "Event"))
        kmf_normal == KaplanMeierFit(Column(df_normal, "Duration_Years"),
                                     Column(df_normal, "Event"))
    IN  [today         |-> today,
         stage         |-> IF ~kmf_celeb.ok THEN "kmf.fit" ELSE "done",
         df            |-> df,
         kmf           |-> kmf_celeb,
         kmf_normal    |-> IF kmf_celeb.ok THEN <<kmf_normal>> ELSE <<>>,
         median_celeb  |-> IF kmf_celeb.ok
                           THEN <<median(dropna_values(Column(df, "Duration_Years")))>>
                           ELSE <<>>,
         median_normal |-> IF kmf_celeb.ok
                           THEN <<median(dropna_values(Column(df_normal, "Duration_Years")))>>
                           ELSE <<>>]

(***************************************************************************)
(* lifelines.CoxPHFitter.fit: the library's code.  The coefficients are    *)
(* not modelled; the fit raises on an empty table and on a missing value   *)
(* in any column.                                                          *)
(***************************************************************************)
CoxPHFit(cox_data) ==
    [ok |-> Len(cox_data) > 0
            /\ \A i \in 1..Len(cox_data) :
                  /\ ~cox_data[i].Duration_Years.isna
                  /\ ~cox_data[i].Children_Count.isna
                  /\ ~cox_data[i].Awards_Count.isna,
     data |-> cox_data]

(***************************************************************************)
(* step5_psycho_economic_analysis.py                                       *)
(***************************************************************************)
\* lines 12-14: the four date columns parsed
step5_parse(r) ==
    [r EXCEPT !.Start_Date = to_datetime(@), !.End_Date = to_datetime(@),
              !.Celebrity_Birth = to_datetime(@), !.Career_Start_Year = to_datetime(@)]

\* line 16: dropna(subset=['Start_Date', 'Celebrity_Birth', 'Career_Start_Year'])
step5_has_dates(row) ==
    ~isnull(row.Start_Date) /\ ~isnull(row.Celebrity_Birth)
        /\ ~isnull(row.Career_Start_Year)

\* lines 19-21: the duration column
step5_duration(row, today) ==
    LET Observed == fillna(row.End_Date, today)
    IN  [Celebrity         |-> row.Celebrity,
         Start_Date        |-> row.Start_Date,
         End_Date          |-> row.End_Date,
         End_Cause         |-> row.End_Cause,
         Celebrity_Birth   |-> row.Celebrity_Birth,
         Career_Start_Year |-> row.Career_Start_Year,
         Children_Count    |-> row.Children_Count,
         Awards_Count      |-> row.Awards_Count,
         Observed_End_Date |-> Observed,
         Duration_Years    |-> years_of_days(dt_days(Observed, row.Start_Date))]

\* line 22: df[df['Duration_Years'] > 0]
step5_positive(row) == gt(row.Duration_Years, RatOfInt(0))

\* line 33: the age at the start of the career, in years
step5_Age_At_Debut(row) ==
    years_of_days(dt_days(row.Career_Start_Year, row.Celebrity_Birth))

\* the age below which a debut makes a child star (lines 39-40)
ChildStarAge == 16

\* the age a valid debut stays below (line 36)
MaxDebutAge == 80

\* line 36: (Age_At_Debut > 0) & (Age_At_Debut < 80)
step5_valid_age(row) ==
    LET age == step5_Age_At_Debut(row)
    IN  gt(age, RatOfInt(0)) /\ lt(age, RatOfInt(MaxDebutAge))

\* line 44: pd.cut(Children_Count, bins=[-1, 0, 2, 20], labels=...)
step5_Children_Category(count) ==
    IF count.isna THEN "NaN"
    ELSE IF -1 < count.v /\ count.v <= 0 THEN "No Kids"
    ELSE IF 0 < count.v /\ count.v <= 2 THEN "1-2 Kids"
    ELSE IF 2 < count.v /\ count.v <= 20 THEN "3+ Kids"
    ELSE "NaN"

\* lines 29-44: the event flag and the derived variables
step5_features(row) ==
    LET age == step5_Age_At_Debut(row)
        child == lt(age, RatOfInt(ChildStarAge))
    IN  [Celebrity            |-> row.Celebrity,
         Start_Date           |-> row.Start_Date,
         End_Date             |-> row.End_Date,
         End_Cause            |-> row.End_Cause,
         Observed_End_Date    |-> row.Observed_End_Date,
         Duration_Years       |-> row.Duration_Years,
         Event                |-> step5_get_status(row),
         Age_At_Debut         |-> age,
         Is_Child_Star        |-> IF child THEN "Child Star" ELSE "Adult Debut",
         Is_Child_Star_Binary |-> IF child THEN 1 ELSE 0,
         Children_Count       |-> row.Children_Count,
         Awards_Count         |-> row.Awards_Count,
         Children_Category    |-> step5_Children_Category(row.Children_Count)]

\* lines 9-44: the cleaned frame
step5_frame(table, today) ==
    LET parsed == [i \in 1..Len(table) |-> step5_parse(table[i])]
        dated == SelectSeq(parsed, step5_has_dates)
        timed == [i \in 1..Len(dated) |-> step5_duration(dated[i], today)]
        valid == SelectSeq(timed, step5_positive)
        aged == SelectSeq(valid, step5_valid_age)
    IN  [i \in 1..Len(aged) |-> step5_features(aged[i])]

\* one stratum's curve: [label, n, fit]
Stratum(label, rows) ==
    [label |-> label, n |-> Len(rows),
     fit |-> KaplanMeierFit(Column(rows, "Duration_Years"), Column(rows, "Event"))]

\* the curves of a loop over strata, up to and including the first fit
\* that raises
RECURSIVE FitsUntilRaise(_)
FitsUntilRaise(strata) ==
    IF strata = <<>> THEN <<>>
    ELSE IF ~Head(strata).fit.ok THEN <<Head(strata)>>
    ELSE <<Head(strata)>> \o FitsUntilRaise(Tail(strata))

AllOk(strata) == \A i \in 1..Len(strata) : strata[i].fit.ok

\* the whole script: the Cox fit (lines 51-54), the two child-star curves
\* (lines 62-66, fitted whatever the size of the group) and the curves of the
\* non-empty children buckets (lines 73-78)
step5_psycho_economic_analysis(table, today) ==
    LET df == step5_frame(table, today)
        cox_data == [i \in 1..Len(df) |->
                        [Duration_Years       |-> df[i].Duration_Years,
                         Event                |-> df[i].Event,
                         Is_Child_Star_Binary |-> df[i].Is_Child_Star_Binary,
                         Children_Count       |-> df[i].Children_Count,
                         Awards_Count         |-> df[i].Awards_Count]]
        cph == CoxPHFit(cox_data)
        Group(g) == LET Test(x) == x.Is_Child_Star = g IN SelectSeq(df, Test)
        Bucket(b) == LET Test(x) == x.Children_Category = b IN SelectSeq(df, Test)
        star == FitsUntilRaise(<<Stratum("Child Star", Group("Child Star")),
                                 Stratum("Adult Debut", Group("Adult Debut"))>>)
        NonEmpty(x) == x.n > 0
        kids == SelectSeq(<<Stratum("No Kids", Bucket("No Kids")),
                            Stratum("1-2 Kids", Bucket("1-2 Kids")),
                            Stratum("3+ Kids", Bucket("3+ Kids"))>>, NonEmpty)
        stage == IF ~cph.ok THEN "cph.fit"
                 ELSE IF ~AllOk(star) THEN "kmf.fit"
                 ELSE "done"
    IN  [today      |-> today,
         stage      |-> stage,
         df         |-> df,
         cox_data   |-> cox_data,
         cph_ok     |-> cph.ok,
         star_fits  |-> IF cph.ok THEN star ELSE <<>>,
         kids_fits  |-> IF stage = "done" THEN kids ELSE <<>>]

(***************************************************************************)
(* step7_culture_analysis.py                                               *)
(***************************************************************************)
\* lines 17-18: the two date columns parsed
step7_parse(r) ==
    [r EXCEPT !.Start_Date = to_datetime(@), !.End_Date = to_datetime(@)]

\* line 19: dropna(subset=['Start_Date'])
step7_has_start(row) == ~isnull(row.Start_Date)

\* lines 21-23: the duration column
step7_duration(row, today) ==
    LET Observed == fillna(row.End_Date, today)
    IN  [Celebrity         |-> row.Celebrity,
         Start_Date        |-> row.Start_Date,
         End_Date          |-> row.End_Date,
         End_Cause         |-> row.End_Cause,
         Occupation        |-> row.Occupation,
         Country           |-> row.Country,
         Observed_End_Date |-> Observed,
         Duration_Years    |-> years_of_days(dt_days(Observed, row.Start_Date))]

\* line 24: df[df['Duration_Years'] > 0]
step7_positive(row) == gt(row.Duration_Years, RatOfInt(0))

\* line 30: the event flag
step7_event(row) ==
    [Celebrity         |-> row.Celebrity,
     Start_Date        |-> row.Start_Date,
     End_Date          |-> row.End_Date,
     End_Cause         |-> row.End_Cause,
     Occupation        |-> row.Occupation,
     Country           |-> row.Country,
     Observed_End_Date |-> row.Observed_End_Date,
     Duration_Years    |-> row.Duration_Years,
     Event             |-> step7_get_status(row)]

\* lines 9-30: the cleaned frame
step7_frame(table, today) ==
    LET parsed == [i \in 1..Len(table) |-> step7_parse(table[i])]
        started == SelectSeq(parsed, step7_has_start)
        timed == [i \in 1..Len(started) |-> step7_duration(started[i], today)]
        valid == SelectSeq(timed, step7_positive)
    IN  [i \in 1..Len(valid) |-> step7_event(valid[i])]

K_actor == <<"a", "c", "t", "o", "r">>

K_musician == <<"m", "u", "s", "i", "c", "i", "a", "n">>

K_singer == <<"s", "i", "n", "g", "e", "r">>

\* the target countries (line 34)
step7_target_countries ==
    <<<<"U", "n", "i", "t", "e", "d", " ", "S", "t", "a", "t", "e", "s">>,
      <<"U", "n", "i", "t", "e", "d", " ", "K", "i", "n", "g", "d", "o", "m">>,
      <<"I", "n", "d", "i", "a">>,
      <<"F", "r", "a", "n", "c", "e">>>>

\* a job group needs more rows than this to be fitted (line 47)
JobGroupMinRows == 10

\* a country needs more rows than this to be fitted (line 61)
CountryMinRows == 5

\* line 41: Occupation.astype(str).str.contains('actor|musician|singer', case=False)
step7_in_job(row) ==
    LET o == lower(str(row.Occupation))
    IN  contains(K_actor, o) \/ contains(K_musician, o) \/ contains(K_singer, o)

\* line 42: 'Actor' where the occupation contains 'actor', else 'Musician'
step7_Job_Group(row) ==
    IF ~row.Occupation.isna /\ contains(K_actor, lower(row.Occupation.v))
    THEN "Actor" ELSE "Musician"

\* line 58: Country.astype(str).str.contains(target, case=False, na=False)
step7_in_country(row, target) == contains(lower(target), lower(str(row.Country)))

\* the whole script: the count of countries printed before the cleaning
\* (line 12), the curves of the job groups above 10 rows (lines 45-49), and
\* per target country a curve above 5 rows or a warning (lines 56-67)
step7_culture_analysis(table, today) ==
    LET df == step7_frame(table, today)
        df_job == SelectSeq(df, step7_in_job)
        Job(j) == LET Test(x) == step7_Job_Group(x) = j IN SelectSeq(df_job, Test)
        Land(t) == LET Test(x) == step7_in_country(x, t) IN SelectSeq(df, Test)
        BigJob(x) == x.n > JobGroupMinRows
        BigLand(x) == x.n > CountryMinRows
        SmallLand(x) == ~(x.n > CountryMinRows)
        jobs == FitsUntilRaise(SelectSeq(<<Stratum("Actor", Job("Actor")),
                                           Stratum("Musician", Job("Musician"))>>, BigJob))
        lands == [k \in 1..Len(step7_target_countries) |->
                     Stratum(step7_target_countries[k], Land(step7_target_countries[k]))]
        HasCountry(r) == ~r.Country.isna
    IN  [today           |-> today,
         stage           |-> "done",
         country_counted |-> Len(SelectSeq(table, HasCountry)),
         df              |-> df,
         job_fits        |-> jobs,
         country_fits    |-> SelectSeq(lands, BigLand),
         warnings        |-> [k \in 1..Len(SelectSeq(lands, SmallLand)) |->
                                 [label |-> SelectSeq(lands, SmallLand)[k].label,
                                  n |-> SelectSeq(lands, SmallLand)[k].n]]]

(***************************************************************************)
(* The state machine: a CSV table, then the run of one script on it.       *)
(***************************************************************************)
Init ==
    /\ csv \in CsvTables
    /\ pc = "start"
    /\ out = [stage |-> "none"]

RunDataCheck ==
    /\ pc = "start"
    /\ \E today \in Nows : out' = data_check(csv, today)
    /\ pc' = "data_check"
    /\ UNCHANGED csv

RunAnalysis ==
    /\ pc = "start"
    /\ \E today \in Nows : out' = analysis(csv, today)
    /\ pc' = "analysis"
    /\ UNCHANGED csv

RunStep2 ==
    /\ pc = "start"
    /\ \E today \in Nows : out' = step2_analysis(csv, today)
    /\ pc' = "step2"
    /\ UNCHANGED csv

RunStep3 ==
    /\ pc = "start"
    /\ \E today \in Nows, df_normal \in ControlGroups :
          out' = step3_comparative_analysis(csv, today, df_normal)
    /\ pc' = "step3"
    /\ UNCHANGED csv

RunStep5 ==
    /\ pc = "start"
    /\ \E today \in Nows : out' = step5_psycho_economic_analysis(csv, today)
    /\ pc' = "step5"
    /\ UNCHANGED csv

RunStep7 ==
    /\ pc = "start"
    /\ \E today \in Nows : out' = step7_culture_analysis(csv, today)
    /\ pc' = "step7"
    /\ UNCHANGED csv

Next ==
    \/ RunDataCheck
    \/ RunAnalysis
    \/ RunStep2
    \/ RunStep3
    \/ RunStep5
    \/ RunStep7

Spec == Init /\ [][Next]_vars

(***************************************************************************)
(* What the statements below read from a run.                              *)
(***************************************************************************)
\* the scripts that classify events
EventScripts == {"analysis", "step2", "step3", "step5", "step7"}

\* the scripts that fit a Kaplan-Meier, Cox or logistic model
FitScripts == {"step2", "step3", "step5", "step7"}

\* the event flag a script stored in a row of its frame
EventOf(row) ==
    IF pc \in {"analysis", "step2"} THEN row.Event_Divorce ELSE row.Event

\* the event flag script s computes for a row
EventBy(s, row) ==
    CASE s = "analysis" -> analysis_get_event_status(row)
      [] s = "step2" -> step2_get_event_status(row)
      [] s = "step3" -> step3_get_status(row)
      [] s = "step5" -> step5_get_status(row)
      [] s = "step7" -> step7_get_status(row)

\* the fits of a sequence of strata
FitsOf(strata) == [i \in 1..Len(strata) |-> strata[i].fit]

\* the Kaplan-Meier fits the run attempted
KMFits ==
    CASE pc = "step2" -> <<out.kmf>>
      [] pc = "step3" -> <<out.kmf>> \o out.kmf_normal
      [] pc = "step5" -> FitsOf(out.star_fits) \o FitsOf(out.kids_fits)
      [] pc = "step7" -> FitsOf(out.job_fits) \o FitsOf(out.country_fits)
      [] OTHER -> <<>>

\* the Kaplan-Meier fits that did not raise
FittedCurves == {KMFits[i] : i \in {j \in 1..Len(KMFits) : KMFits[j].ok}}

\* the keyword reading of the end causes of the tables, text by text
CauseNamesDeathOrWidowhood(cell) ==
    cell \in {Text(T_death_of_spouse), Text(T_Widowed)}

(***************************************************************************)
(* C1.  In step2_analysis.py and analysis.py the event flag of a row is 0  *)
(* when End_Date is missing, else 0 when the end cause names death or      *)
(* widowhood in any letter case, else 1 (a missing cause included); a      *)
(* divorce with an end date is 1, an ongoing marriage 0, a marriage ended  *)
(* by 'death of spouse' 0.                                                 *)
(***************************************************************************)
C1_EventFlag ==
    pc \in {"step2", "analysis"} =>
        \A i \in 1..Len(out.df) :
            LET row == out.df[i]
            IN  /\ isnull(row.End_Date) => row.Event_Divorce = 0
                /\ ~isnull(row.End_Date) /\ CauseNamesDeathOrWidowhood(row.End_Cause)
                       => row.Event_Divorce = 0
                /\ ~isnull(row.End_Date) /\ ~CauseNamesDeathOrWidowhood(row.End_Cause)
                       => row.Event_Divorce = 1
                /\ ~isnull(row.End_Date) /\ row.End_Cause = Text(T_divorce)
                       => row.Event_Divorce = 1
                /\ ~isnull(row.End_Date) /\ row.End_Cause = NaNText
                       => row.Event_Divorce = 1
                /\ ~isnull(row.End_Date) /\ row.End_Cause = Text(T_death_of_spouse)
                       => row.Event_Divorce = 0

\* step2 classified a divorce as an event and a mixed-case widowhood as censored
C1_Witness ==
    /\ pc = "step2"
    /\ \E i, j \in 1..Len(out.df) :
          /\ ~isnull(out.df[i].End_Date) /\ out.df[i].End_Cause = Text(T_divorce)
          /\ out.df[i].Event_Divorce = 1
          /\ ~isnull(out.df[j].End_Date) /\ out.df[j].End_Cause = Text(T_Widowed)
          /\ out.df[j].Event_Divorce = 0

(***************************************************************************)
(* C2.  Every script gives a row the event flag every other script would   *)
(* give it: the flag stored by the script that ran equals the flag each of *)
(* analysis, step2, step3, step5 and step7 computes from the row's         *)
(* End_Date and End_Cause.                                                 *)
(***************************************************************************)
C2_SameEventInEveryScript ==
    pc \in EventScripts =>
        \A i \in 1..Len(out.df) :
            \A s \in EventScripts : EventOf(out.df[i]) = EventBy(s, out.df[i])

(***************************************************************************)
(* C3.  A row whose Start_Date is missing or unparseable is used by no     *)
(* script: it is in no frame, and in data_check.py it is not counted in    *)
(* the total, nor in the most-married counts, nor listed among the         *)
(* shortest marriages; step7 counts no country of such a row.              *)
(***************************************************************************)
StartParses(r) == r.Start_Date.kind = "iso"

C3_NoRowWithoutStart ==
    pc # "start" =>
        /\ \A i \in 1..Len(out.df) : ~isnull(out.df[i].Start_Date)
        /\ pc = "data_check" =>
              /\ out.total_records = Len(SelectSeq(csv, StartParses))
              /\ \A i \in 1..Len(out.shortest) : ~isnull(out.shortest[i].Start_Date)
              /\ \A i \in 1..Len(out.most_married) :
                    out.most_married[i].count <= Len(SelectSeq(csv, StartParses))
        /\ pc = "step7" => out.country_counted <= Len(SelectSeq(csv, StartParses))

(***************************************************************************)
(* C4.  Every row of the frame that step2, step3, step5 and step7 hand to  *)
(* their Kaplan-Meier, Cox and logistic fits has a start date, a duration  *)
(* in whole days above 0, counted from the start date to the end date or,  *)
(* without one, to the time of the run, and a duration in years equal to   *)
(* the days divided by 365.25; the fits take their rows from that frame.   *)
(***************************************************************************)
WholeDays(row) == (row.Observed_End_Date.v - row.Start_Date.v) \div TicksPerDay

C4_RowIsValid(row) ==
    /\ ~isnull(row.Start_Date)
    /\ ~isnull(row.Observed_End_Date)
    /\ IF isnull(row.End_Date) THEN row.Observed_End_Date.v \in Nows
       ELSE row.Observed_End_Date = row.End_Date
    /\ WholeDays(row) > 0
    /\ ~row.Duration_Years.isna
    /\ row.Duration_Years.v.num * 1461 = WholeDays(row) * 4 * row.Duration_Years.v.den

C4_FitInputs ==
    pc \in FitScripts =>
        /\ \A i \in 1..Len(out.df) : C4_RowIsValid(out.df[i])
        /\ \A f \in FittedCurves :
              \A k \in 1..Len(f.durations) : f.durations[k].num > 0
        /\ pc = "step2" =>
              /\ \A i \in 1..Len(out.df) : out.df[i].Duration_Days.v = WholeDays(out.df[i])
              /\ out.kmf.ok => out.kmf.durations
                                  = [i \in 1..Len(out.df) |-> out.df[i].Duration_Years.v]
              /\ \A i \in 1..Len(out.model_data) :
                    /\ ~isnull(out.model_data[i].Start_Date)
                    /\ out.model_data[i].Duration_Days.v > 0
                    /\ \E j \in 1..Len(out.df) :
                          /\ out.df[j].Duration_Days = out.model_data[i].Duration_Days
                          /\ out.df[j].Duration_Years = out.model_data[i].Duration_Years
        /\ pc = "step5" =>
              /\ Len(out.cox_data) = Len(out.df)
              /\ \A i \in 1..Len(out.cox_data) :
                    out.cox_data[i].Duration_Years = out.df[i].Duration_Years

\* step2 fitted its curve on a frame from which an invalid row was dropped
C4_Witness ==
    /\ pc = "step2"
    /\ out.kmf.ok
    /\ Len(out.df) >= 1
    /\ Len(out.df) < Len(csv)
    /\ \E i \in 1..Len(out.df) : isnull(out.df[i].End_Date)

(***************************************************************************)
(* C5.  data_check.py reports nothing about a record whose duration is     *)
(* zero or negative: no such record is counted in the total, listed among  *)
(* the shortest ended marriages, or part of the median of ended marriages. *)
(***************************************************************************)
C5_NoNonPositiveDuration ==
    pc = "data_check" =>
        /\ \A i \in 1..Len(out.df) :
              out.df[i].Duration_Days.isna \/ out.df[i].Duration_Days.v > 0
        /\ \A i \in 1..Len(out.shortest) :
              out.shortest[i].Duration_Days.isna \/ out.shortest[i].Duration_Days.v > 0
        /\ \A i \in 1..Len(out.median_input) : out.median_input[i].num > 0

(***************************************************************************)
(* C6.  Within a script, two rows with the same End_Date presence and the  *)
(* same End_Cause text have the same event flag, whatever their start      *)
(* dates and durations.                                                    *)
(***************************************************************************)
C6_EventDependsOnEndAndCause ==
    pc \in EventScripts =>
        \A i, j \in 1..Len(out.df) :
            (/\ isnull(out.df[i].End_Date) = isnull(out.df[j].End_Date)
             /\ out.df[i].End_Cause = out.df[j].End_Cause)
                => EventOf(out.df[i]) = EventOf(out.df[j])

\* two ended rows of step7 with the same cause, one above and one below
\* five years, and the same flag
C6_Witness ==
    /\ pc = "step7"
    /\ \E i, j \in 1..Len(out.df) :
          /\ ~isnull(out.df[i].End_Date) /\ ~isnull(out.df[j].End_Date)
          /\ out.df[i].End_Cause = out.df[j].End_Cause
          /\ RatLt(out.df[i].Duration_Years.v, Rat(5, 1))
          /\ RatLt(Rat(5, 1), out.df[j].Duration_Years.v)
          /\ out.df[i].Start_Date # out.df[j].Start_Date
          /\ out.df[i].Event = out.df[j].Event

(***************************************************************************)
(* C7.  The logistic regression of step2_analysis.py gets every row of the *)
(* frame except those censored at five years or less; the target of a row  *)
(* is 1 exactly when its duration is at most five years (1826 days), so a  *)
(* row labelled short is an observed event.                                *)
(***************************************************************************)
\* at most five years: 365.25 * 5 = 1826.25 days
AtMostFiveYears(row) == row.Duration_Days.v * 4 <= 5 * 1461

C7_LogisticInput ==
    pc = "step2" /\ out.kmf.ok =>
        /\ Len(out.model_data)
              = Cardinality({i \in 1..Len(out.df) :
                                ~(out.df[i].Event_Divorce = 0 /\ AtMostFiveYears(out.df[i]))})
        /\ \A i \in 1..Len(out.model_data) :
              LET row == out.model_data[i]
              IN  /\ row.Event_Divorce = 1 \/ ~AtMostFiveYears(row)
                  /\ row.Target_Short_Marriage = 1 <=> AtMostFiveYears(row)
                  /\ row.Target_Short_Marriage \in {0, 1}
                  /\ row.Target_Short_Marriage = 1 => row.Event_Divorce = 1

\* a short observed event was kept and a row censored early was left out
C7_Witness ==
    /\ pc = "step2"
    /\ out.kmf.ok
    /\ \E i \in 1..Len(out.model_data) : out.model_data[i].Target_Short_Marriage = 1
    /\ \E i \in 1..Len(out.df) :
          out.df[i].Event_Divorce = 0 /\ AtMostFiveYears(out.df[i])
    /\ Len(out.model_data) < Len(out.df)

(***************************************************************************)
(* C8.  A fitted Kaplan-Meier curve is the product-limit estimate: at each *)
(* of its times t, S(t) is the product over the event times u <= t of      *)
(* (1 - d_u / n_u), d_u the events at u and n_u the observations with      *)
(* duration >= u, so that an observation censored at u is in n_u and not   *)
(* in d_u; every event time is a time of the curve.                        *)
(***************************************************************************)
RECURSIVE RatProduct(_)
RatProduct(factors) ==
    IF factors = <<>> THEN Rat(1, 1)
    ELSE RatMul(Head(factors), RatProduct(Tail(factors)))

ProductLimit(T, E, t) ==
    LET N == 1..Len(T)
        times == SortRats({RatNorm(T[i]) : i \in {j \in N : E[j] = 1 /\ RatLe(T[j], t)}})
        n(u) == Cardinality({i \in N : RatLe(u, T[i])})
        d(u) == Cardinality({i \in N : RatEq(u, T[i]) /\ E[i] = 1})
    IN  RatProduct([k \in 1..Len(times) |-> Rat(n(times[k]) - d(times[k]), n(times[k]))])

C8_ProductLimit ==
    \A f \in FittedCurves :
        /\ \A k \in 1..Len(f.curve) :
              RatEq(f.curve[k].S, ProductLimit(f.durations, f.event_observed, f.curve[k].t))
        /\ \A i \in 1..Len(f.durations) :
              \E k \in 1..Len(f.curve) : RatEq(f.curve[k].t, f.durations[i])

\* a curve with an event and a censoring at the same time, strictly
\* between 0 and 1 there
C8_Witness ==
    \E f \in FittedCurves :
        \E i, j \in 1..Len(f.durations) :
            /\ f.event_observed[i] = 1 /\ f.event_observed[j] = 0
            /\ RatEq(f.durations[i], f.durations[j])
            /\ \E k \in 1..Len(f.curve) :
                  /\ RatEq(f.curve[k].t, f.durations[i])
                  /\ RatLt(Rat(0, 1), f.curve[k].S) /\ RatLt(f.curve[k].S, Rat(1, 1))

(***************************************************************************)
(* C9.  A fitted Kaplan-Meier curve starts at time 0 with S = 1 exactly,   *)
(* never rises from one time to the next, and stays between 0 and 1.       *)
(***************************************************************************)
C9_SurvivalFunctionShape ==
    \A f \in FittedCurves :
        /\ Len(f.curve) >= 1
        /\ f.curve[1].t = Rat(0, 1)
        /\ f.curve[1].S = Rat(1, 1)
        /\ KMPredict(f.curve, Rat(0, 1)) = Rat(1, 1)
        /\ \A k \in 1..Len(f.curve) :
              RatLe(Rat(0, 1), f.curve[k].S) /\ RatLe(f.curve[k].S, Rat(1, 1))
        /\ \A k \in 1..(Len(f.curve) - 1) :
              /\ RatLt(f.curve[k].t, f.curve[k + 1].t)
              /\ RatLe(f.curve[k + 1].S, f.curve[k].S)

\* a curve of step2 that falls twice
C9_Witness ==
    /\ pc = "step2"
    /\ \E f \in FittedCurves :
          \E k \in 1..(Len(f.curve) - 2) :
              /\ RatLt(f.curve[k + 1].S, f.curve[k].S)
              /\ RatLt(f.curve[k + 2].S, f.curve[k + 1].S)

C11_MedianAndTenYears ==
    (pc = "step2" /\ out.report # <<>>) =>
        LET T == out.kmf.durations
            E == out.kmf.event_observed
            m == out.report[1].median
            S(t) == ProductLimit(T, E, t)
        IN  /\ RatEq(out.report[1].p10, S(RatOfInt(10)))
            /\ m.inf => \A i \in 1..Len(T) : RatLt(Rat(1, 2), S(T[i]))
            /\ ~m.inf =>
                  /\ RatLe(S(m.v), Rat(1, 2))
                  /\ \E i \in 1..Len(T) : RatEq(T[i], m.v)
                  /\ \A i \in 1..Len(T) :
                        RatLt(T[i], m.v) => RatLt(Rat(1, 2), S(T[i]))

\* step2 reported a finite median at a time where S is exactly 0.5 (the
\* boundary of the comparison), and a lower 10-year probability read off a
\* later step of the curve
C11_Witness ==
    /\ pc = "step2"
    /\ out.report # <<>>
    /\ ~out.report[1].median.inf
    /\ RatEq(KMPredict(out.kmf.curve, out.report[1].median.v), Rat(1, 2))
    /\ RatLt(out.report[1].median.v, RatOfInt(10))
    /\ RatLt(out.report[1].p10, Rat(1, 2))
    /\ \E k \in 1..Len(out.kmf.curve) :
          /\ RatLt(out.report[1].median.v, out.kmf.curve[k].t)
          /\ RatLt(out.kmf.curve[k].t, RatOfInt(10))
          /\ RatEq(out.kmf.curve[k].S, out.report[1].p10)

(***************************************************************************)
(* C12.  In the stratified Kaplan-Meier analyses of step5 (child-star     *)
(* groups, children buckets) and step7 (profession groups, countries) no   *)
(* curve is fitted for a stratum of fewer than 5 observations, an empty    *)
(* stratum included: the stratum is skipped, and the run goes on.          *)
(***************************************************************************)
C12_SmallStrataSkipped ==
    /\ pc = "step5" =>
          /\ \A i \in 1..Len(out.star_fits) : out.star_fits[i].n >= 5
          /\ \A i \in 1..Len(out.kids_fits) : out.kids_fits[i].n >= 5
          /\ out.cph_ok => out.stage = "done"
    /\ pc = "step7" =>
          /\ \A i \in 1..Len(out.job_fits) : out.job_fits[i].n >= 5
          /\ \A i \in 1..Len(out.country_fits) : out.country_fits[i].n >= 5

(***************************************************************************)
(* C13.  In analysis.py a valid record whose age gap is missing or above   *)
(* the cutoff (70 years, say) is left out of the statistics per age-gap    *)
(* bin, but it is counted in the statistics that are not stratified by the *)
(* age gap: the statistics per spouse type count every valid record, and   *)
(* the correlation is taken over every valid divorced record.              *)
(***************************************************************************)
C13_Outlier(row) ==
    row.Age_Gap.isna \/ RatLt(RatOfInt(AgeGapCutoff), row.Age_Gap.v)

\* C13: the outliers are missing from the age-gap bins only; the spouse-type
\* statistics and the correlation cover every valid record
C13_OutliersOnlyLeaveAgeGapStats ==
    pc = "analysis" =>
        LET df == out.df
            OfType(t) == {i \in 1..Len(df) : df[i].Spouse_Type = t}
            Divorced == {i \in 1..Len(df) : df[i].Event_Divorce = 1}
        IN  /\ \A i \in 1..Len(out.df_clean) : ~C13_Outlier(out.df_clean[i].Row)
            /\ \A i \in 1..Len(df) : df[i].Spouse_Type \in DOMAIN out.fame_stats
            /\ \A t \in DOMAIN out.fame_stats :
                  out.fame_stats[t].Total_Marriages = Cardinality(OfType(t))
            /\ Len(out.corr_input) = Cardinality(Divorced)

(***************************************************************************)
(* C14.  The Cox fit of step5_psycho_economic_analysis.py never consumes a *)
(* missing value: no row of the table given to cph.fit misses its          *)
(* Duration_Years, Event, Is_Child_Star_Binary, Children_Count or          *)
(* Awards_Count (the rows without the dates are dropped, the missing       *)
(* counts were filled with 0 when the table was saved), and were one of    *)
(* these cells missing, the fit would raise instead of giving a model.     *)
(***************************************************************************)
C14_Missing(cox_data, i, col) ==
    [cox_data EXCEPT ![i] = [@ EXCEPT ![col] = NaNRat]]

\* C14: no missing value in the table given to cph.fit, and a missing value
\* there would make the fit raise
C14_CoxInputComplete ==
    pc = "step5" =>
        /\ \A i \in 1..Len(out.cox_data) :
              /\ ~out.cox_data[i].Duration_Years.isna
              /\ out.cox_data[i].Event \in {0, 1}
              /\ out.cox_data[i].Is_Child_Star_Binary \in {0, 1}
              /\ ~out.cox_data[i].Children_Count.isna
              /\ ~out.cox_data[i].Awards_Count.isna
        /\ Len(out.cox_data) <= Cardinality({i \in 1..Len(csv) :
                                   step5_has_dates(step5_parse(csv[i]))})
        /\ \A i \in 1..Len(out.cox_data) :
              \A col \in {"Duration_Years", "Children_Count", "Awards_Count"} :
                  ~CoxPHFit(C14_Missing(out.cox_data, i, col)).ok

\* the Cox model was fitted on two rows, one of them without children
\* (none counted, or none returned by the fetch) and one with 21
C14_Witness ==
    /\ pc = "step5"
    /\ out.cph_ok
    /\ Len(out.cox_data) = 2
    /\ out.cox_data[1].Children_Count = Num(0)
    /\ out.cox_data[2].Children_Count = Num(21)

(***************************************************************************)
(* C15.  A model whose fit fails does not stop the other analyses of the   *)
(* run: when the logistic fit of step2 fails, the Kaplan-Meier median and  *)
(* 10-year survival of the fitted curve are still reported; when the Cox   *)
(* fit of step5 fails on a table with rows, the stratified Kaplan-Meier    *)
(* curves are still computed.                                              *)
(***************************************************************************)
C15_FitFailuresIsolated ==
    /\ (pc = "step2" /\ out.kmf.ok /\ ~out.model_ok) =>
          /\ out.report # <<>>
          /\ out.report[1].median = out.kmf.median_survival_time_
    /\ (pc = "step5" /\ ~out.cph_ok /\ Len(out.df) > 0) =>
          Len(out.star_fits) + Len(out.kids_fits) > 0

(***************************************************************************)
(* C16.  In step5_psycho_economic_analysis.py, with the age at the debut   *)
(* being career start minus birth in years: a record is flagged child star *)
(* exactly when that age is below 16; among the records with their dates   *)
(* and a positive duration, the child-star analysis keeps exactly those    *)
(* whose age is neither negative nor above 80 (0 and 80 are kept); and the *)
(* children-bucket curves still read the records of invalid age.           *)
(***************************************************************************)
C16_Eligible ==
    {i \in 1..Len(csv) :
        /\ step5_has_dates(step5_parse(csv[i]))
        /\ step5_positive(step5_duration(step5_parse(csv[i]), out.today))}

C16_Age(i) == step5_Age_At_Debut(step5_parse(csv[i])).v

C16_ValidAge(i) ==
    RatLe(RatOfInt(0), C16_Age(i)) /\ RatLe(C16_Age(i), RatOfInt(MaxDebutAge))

C16_ChildStarFlag ==
    pc = "step5" =>
        \A k \in 1..Len(out.df) :
            (out.df[k].Is_Child_Star = "Child Star")
                <=> RatLt(out.df[k].Age_At_Debut.v, RatOfInt(ChildStarAge))

C16_InvalidAgeLeavesChildStarOnly ==
    pc = "step5" =>
        Len(out.df) = Cardinality({i \in C16_Eligible : C16_ValidAge(i)})

C16_KidsCurvesKeepInvalidAge ==
    pc = "step5" =>
        LET Bucketed(x) == x.Children_Category # "NaN"
        IN  Len(SelectSeq(out.df, Bucketed)) =
                Cardinality({i \in C16_Eligible :
                    step5_Children_Category(csv[i].Children_Count) # "NaN"})

\* C16: the flag below 16, the ages 0 to 80 kept, and the records of invalid
\* age still read by the children-bucket curves
C16_ChildStarAndValidAge ==
    /\ C16_ChildStarFlag
    /\ C16_InvalidAgeLeavesChildStarOnly
    /\ C16_KidsCurvesKeepInvalidAge

(***************************************************************************)
(* C17.  In step5_psycho_economic_analysis.py every retained record has    *)
(* exactly one children bucket, decided by its count: 0 is 'No Kids', 1    *)
(* and 2 are '1-2 Kids', and every count of 3 or more, however large, is   *)
(* '3+ Kids'.                                                              *)
(***************************************************************************)
C17_EveryCountHasItsBucket ==
    pc = "step5" =>
        \A k \in 1..Len(out.df) :
            LET n == out.df[k].Children_Count
            IN  (~n.isna /\ n.v >= 0) =>
                    out.df[k].Children_Category =
                        (IF n.v = 0 THEN "No Kids"
                         ELSE IF n.v <= 2 THEN "1-2 Kids"
                         ELSE "3+ Kids")

(***************************************************************************)
(* C18.  In analysis.py the outlier policy removes a valid record from the *)
(* statistics per age gap exactly when its age gap is missing or above 60  *)
(* years: every record with an age gap of at most 60 years, 60 included,   *)
(* is in the cleaned frame, and no other record is.                        *)
(***************************************************************************)
C18_OutlierPolicy ==
    pc = "analysis" =>
        LET Kept == {i \in 1..Len(out.df) :
                        /\ ~out.df[i].Age_Gap.isna
                        /\ RatLe(out.df[i].Age_Gap.v, RatOfInt(AgeGapCutoff))}
        IN  /\ Len(out.df_clean) = Cardinality(Kept)
            /\ \A k \in 1..Len(out.df_clean) :
                  \E i \in Kept : out.df[i] = out.df_clean[k].Row

(***************************************************************************)
(* C19.  In analysis.py every record kept by the age-gap outlier filter,   *)
(* a record of age gap 0 included, is in exactly one of the four age-gap   *)
(* bins, so that the Total_Marriages of the four bins add up to the number *)
(* of kept records.                                                        *)
(***************************************************************************)
C19_EveryKeptRecordHasABin ==
    pc = "analysis" =>
        /\ \A k \in 1..Len(out.df_clean) :
              \E b \in 1..Len(analysis_labels) :
                  out.df_clean[k].Age_Gap_Bin = analysis_labels[b]
        /\ SumSeq([b \in 1..Len(analysis_labels) |->
                      out.age_gap_stats[b].Total_Marriages]) = Len(out.df_clean)

====
